---- MODULE Spec2Model ----
(***************************************************************************)
(* Model of the two-player WebSocket relay of ultimate-ttt-ws.             *)
(*                                                                         *)
(* The repository holds two builds of the relay: src/server.js and         *)
(* src/unnamed/part_000.  Both keep the same registry                      *)
(*     rooms : code -> { clients : Set<WS>, sides : Map<WS,'X'|'O'> }      *)
(* and differ in their handlers.  The variable `variant` says which build  *)
(* is running; every handler below is translated from the build it names.  *)
(*                                                                         *)
(* One action is one turn of the Node event loop: a whole 'message',       *)
(* 'close', 'error' or 'pong' callback, or one whole heartbeat tick.       *)
(***************************************************************************)
EXTENDS Naturals, Sequences, FiniteSets, TLC

\* Bound of the model: how many connections the server accepts in one run.
NumConns == 3

Conns == 1..NumConns

Variants == {"server.js", "part_000"}

(***************************************************************************)
(* JavaScript values.  A string is the sequence of its characters.         *)
(***************************************************************************)
Undef == [type |-> "undefined"]
Str(s) == [type |-> "string", s |-> s]
Num(n) == [type |-> "number", n |-> n]
Null == "null"
SP == " "

\* A frame as the 'message' handler sees it: text that JSON.parse rejects
\* ("garbage"), the JSON text null, a JSON scalar (a number or a string; an
\* array destructures the same way), or a JSON object with its t, room and
\* data fields (Undef for a field the object lacks).
Garbage == [k |-> "garbage"]
JsonNull == [k |-> "null"]
Scalar == [k |-> "scalar"]
Object(t, room, data) == [k |-> "object", t |-> t, room |-> room, data |-> data]

\* The room codes and payloads the clients of the model use.
Codes == {<<"a">>, <<"b">>}
Payloads == {Undef, Num(1)}

JoinFrames == {Object(Str(<<"join">>), Str(c), Undef) : c \in Codes}
MoveFrames == {Object(Str(<<"move">>), Str(c), d) : c \in Codes, d \in Payloads}
ResetFrames == {Object(Str(<<"reset">>), Str(c), Undef) : c \in Codes}

\* The frames the clients of Spec send.
Frames == JoinFrames \cup MoveFrames \cup ResetFrames

T_JOIN == Str(<<"join">>)
T_MOVE == Str(<<"move">>)
T_RESET == Str(<<"reset">>)

\* JS truthiness of the values above.
Truthy(v) ==
    CASE v.type = "undefined" -> FALSE
      [] v.type = "string" -> v.s # <<>>
      [] v.type = "number" -> v.n # 0

RECURSIVE TrimStart(_)
TrimStart(s) == IF s # <<>> /\ Head(s) = SP THEN TrimStart(Tail(s)) ELSE s

RECURSIVE TrimEnd(_)
TrimEnd(s) ==
    IF s # <<>> /\ s[Len(s)] = SP THEN TrimEnd(SubSeq(s, 1, Len(s) - 1)) ELSE s

\* String.prototype.trim
Trim(s) == TrimEnd(TrimStart(s))

\* part_000: String(m.room || '').trim()
RoomCode(v) == IF Truthy(v) /\ v.type = "string" THEN Trim(v.s) ELSE <<>>

VARIABLES
    variant,      \* which build runs
    up,           \* the Node process is running (no uncaught exception yet)
    rooms,        \* the registry: code -> [clients, sides]
    readyState,   \* ws.readyState; 0 stands for "not accepted yet"
    tracked,      \* wss.clients
    isAlive,      \* ws.isAlive, of the sockets in wss.clients
    currentRoom,  \* ws.currentRoom, of the sockets in wss.clients (server.js only)
    cleaned,      \* the sockets whose 'close' or 'error' handler has run
    last,         \* the event the last turn of the event loop handled
    prev,         \* the registry before that turn
    sent,         \* what that turn sent, per receiving connection, in order
    joinedIn,     \* the room of the last `joined` reply, of the sockets in wss.clients
    pending,      \* the sockets pinged by a tick and not heard a pong from since
    journal       \* what a recording run keeps of the relays: see Journal below

vars ==
    <<variant, up, rooms, readyState, tracked, isAlive, currentRoom, cleaned, last, prev,
      sent, joinedIn, pending, journal>>

\* The fields of a socket are kept from its 'connection' event to its 'close'
\* event; no code reads them after that.
Extend(f, k, v) == [x \in DOMAIN f \cup {k} |-> IF x = k THEN v ELSE f[x]]

Without(f, k) == [x \in DOMAIN f \ {k} |-> f[x]]

EmptyRoom == [clients |-> {}, sides |-> <<>>]

NoSent == [c \in Conns |-> <<>>]

\* getRoom(code): the registry after lookup-or-create.
getRoom(rms, code) ==
    IF code \in DOMAIN rms THEN rms ELSE [c \in DOMAIN rms \cup {code} |->
        IF c = code THEN EmptyRoom ELSE rms[c]]

\* rooms.delete(code)
DeleteRoom(rms, code) == [c \in DOMAIN rms \ {code} |-> rms[c]]

\* new Set(room.sides.values())
Used(room) == {room.sides[c] : c \in DOMAIN room.sides}

\* chooseSide without its `return null`: a room never counts as full.
chooseSideNeverFull(room) ==
    IF "X" \notin Used(room) THEN "X" ELSE "O"

\* chooseSide by head count instead of by free role: X to the first member of
\* a room, O to the second.
chooseSideByCount(room) ==
    IF room.clients = {} THEN "X"
    ELSE IF Cardinality(room.clients) = 1 THEN "O"
    ELSE Null

\* chooseSide(roomObj) / assignSide(room, ws)
chooseSide(room) ==
    IF "X" \notin Used(room) THEN "X"
    ELSE IF "O" \notin Used(room) THEN "O"
    ELSE Null

\* r.clients.add(ws); r.sides.set(ws, side)
AddMember(room, ws, side) ==
    [clients |-> room.clients \cup {ws},
     sides |-> [c \in DOMAIN room.sides \cup {ws} |->
                  IF c = ws THEN side ELSE room.sides[c]]]

\* r.clients.delete(ws); r.sides.delete(ws)
DropMember(room, ws) ==
    [clients |-> room.clients \ {ws},
     sides |-> [c \in DOMAIN room.sides \ {ws} |-> room.sides[c]]]

\* ws.send called twice for one message.
SendTwice(out, c, msg) == [out EXCEPT ![c] = Append(Append(@, msg), msg)]

\* ws.send(JSON.stringify(msg)) to one connection.
Send(out, c, msg) == [out EXCEPT ![c] = Append(@, msg)]

\* broadcast without its `c !== except` test: the sender is served too.
broadcastToAll(out, room, msg, except) ==
    [c \in Conns |->
        IF c \in room.clients /\ readyState[c] = 1
        THEN Append(out[c], msg) ELSE out[c]]

\* broadcast(roomObj, msg, except): every open client of the room but `except`
\* (0 when the call passes none).
broadcast(out, room, msg, except) ==
    [c \in Conns |->
        IF c \in room.clients /\ readyState[c] = 1 /\ c # except
        THEN Append(out[c], msg) ELSE out[c]]

\* otherClient(room, ws): the first client of the set that is not ws, or null
\* (0).  The set's insertion order is not kept, so every candidate is returned.
otherClient(room, ws) ==
    IF room.clients \ {ws} = {} THEN {0} ELSE room.clients \ {ws}

\* What Map.get gives for a missing key, among the sides.
NoSide == "undefined"

\* JSON.stringify({ t:'move', from, data }): a key whose value is undefined is
\* dropped.  `from` is room.sides.get(ws): a side, null, or undefined.
MoveMsg(from, data) ==
    CASE from # NoSide /\ data # Undef -> [t |-> "move", from |-> from, data |-> data]
      [] from # NoSide /\ data = Undef -> [t |-> "move", from |-> from]
      [] from = NoSide /\ data # Undef -> [t |-> "move", data |-> data]
      [] OTHER -> [t |-> "move"]

ErrorMsg(e) == [t |-> "error", error |-> e]

JoinedMsg(code, side) == [t |-> "joined", room |-> code, side |-> side]

PeerJoinedMsg(side) == [t |-> "peer_joined", side |-> side]

\* room.sides.get(ws)
sideFor(room, ws) == IF ws \in DOMAIN room.sides THEN room.sides[ws] ELSE NoSide

\* What a handler leaves behind: the registry, the frames sent, ws.currentRoom
\* of every connection, and whether the process survived the turn.
Effect(rms, out, cur, alive) ==
    [rooms |-> rms, sent |-> out, currentRoom |-> cur, up |-> alive]

\* The empty string stands for ws.currentRoom = null and for "no room" below:
\* no handler stores a falsy code.
NoRoom == <<>>

(***************************************************************************)
(* src/unnamed/part_000                                                    *)
(***************************************************************************)

\* The rooms of the registry that hold ws.
Membership(rms, ws) == {c \in DOMAIN rms : ws \in rms[c].clients}

\* leaveEverywhere's loop stops at the first room, in the Map's insertion
\* order, that holds ws.  The order is not kept: every room that holds ws is a
\* candidate; NoRoom when none does.
LeaveTargets(rms, ws) ==
    IF Membership(rms, ws) = {} THEN {NoRoom} ELSE Membership(rms, ws)

\* leaveEverywhere(ws), leaving room `code`: the registry afterwards.
leaveEverywhere(rms, ws, code) ==
    IF code = NoRoom THEN rms
    ELSE LET r == DropMember(rms[code], ws)
         IN IF r.clients = {} THEN DeleteRoom(rms, code)
            ELSE [rms EXCEPT ![code] = r]

\* leaveEverywhere with its broadcast outside the `if (r.clients.delete(ws))`
\* test: the members of every room are told, whether ws was with them or not.
leaveNotifyEveryRoom(out, rms, ws, code) ==
    [c \in Conns |->
        IF c # ws /\ readyState[c] = 1 /\ Membership(rms, c) # {}
        THEN Append(out[c], [t |-> "peer_left",
                             room |-> CHOOSE r \in Membership(rms, c) : TRUE])
        ELSE out[c]]

\* leaveEverywhere(ws), leaving room `code`: broadcast(r, peer_left).
leaveNotify(out, rms, ws, code) ==
    IF code = NoRoom THEN out
    ELSE broadcast(out, DropMember(rms[code], ws),
                   [t |-> "peer_left", room |-> code], 0)

\* t === 'join' with a non-empty code; lc is the room leaveEverywhere leaves.
\* `r` is the object getRoom returned: still in the registry, or detached from
\* it when leaveEverywhere has just deleted its entry (the object then lives
\* on only in the handler's local variable).
join000(rms, cur, ws, code, lc) ==
    LET rms1 == getRoom(rms, code)
        rms2 == leaveEverywhere(rms1, ws, lc)
        out2 == leaveNotify(NoSent, rms1, ws, lc)
        r    == IF code \in DOMAIN rms2 THEN rms2[code]
                ELSE DropMember(rms1[code], ws)
        side == chooseSide(r)
        r2   == AddMember(r, ws, side)
    IN IF side = Null
       THEN Effect(rms2, Send(out2, ws, ErrorMsg("room_full")), cur, TRUE)
       ELSE Effect(IF code \in DOMAIN rms2 THEN [rms2 EXCEPT ![code] = r2] ELSE rms2,
                   broadcast(Send(out2, ws, JoinedMsg(code, side)), r2,
                             PeerJoinedMsg(side), ws),
                   cur, TRUE)

\* t === 'move' / t === 'reset'
relay000(rms, cur, ws, code, msg) ==
    IF code \notin DOMAIN rms \/ ws \notin rms[code].clients
    THEN Effect(rms, NoSent, cur, TRUE)
    ELSE Effect(rms, broadcast(NoSent, rms[code], msg, ws), cur, TRUE)

\* ws.on('message') of part_000.
message000(rms, cur, ws, f, lc) ==
    IF f.k # "object" \/ ~Truthy(f.t)
    THEN Effect(rms, NoSent, cur, TRUE)
    ELSE IF f.t = T_JOIN
    THEN IF RoomCode(f.room) = <<>>
         THEN Effect(rms, Send(NoSent, ws, ErrorMsg("missing_room")), cur, TRUE)
         ELSE join000(rms, cur, ws, RoomCode(f.room), lc)
    ELSE IF f.t = T_MOVE
    THEN relay000(rms, cur, ws, RoomCode(f.room),
                  MoveMsg(IF RoomCode(f.room) \in DOMAIN rms
                          THEN sideFor(rms[RoomCode(f.room)], ws) ELSE NoSide,
                          f.data))
    ELSE IF f.t = T_RESET
    THEN relay000(rms, cur, ws, RoomCode(f.room), [t |-> "reset"])
    ELSE Effect(rms, NoSent, cur, TRUE)

\* ws.on('close') and ws.on('error') of part_000: leaveEverywhere(ws).
close000(rms, cur, ws, lc) ==
    Effect(leaveEverywhere(rms, ws, lc), leaveNotify(NoSent, rms, ws, lc), cur, TRUE)

(***************************************************************************)
(* src/server.js                                                           *)
(***************************************************************************)

\* t === 'join' with a truthy string code; p is otherClient(room, ws).
joinServer(rms, cur, ws, code, p) ==
    LET rms1 == getRoom(rms, code)
        room == rms1[code]
        side == chooseSide(room)
        out  == Send(NoSent, ws, JoinedMsg(code, side))
    IN IF Cardinality(room.clients) >= 2
       THEN Effect(rms1, Send(NoSent, ws, ErrorMsg("room_full")), cur, TRUE)
       ELSE Effect([rms1 EXCEPT ![code] = AddMember(room, ws, side)],
                   IF p # 0 /\ readyState[p] = 1
                   THEN Send(out, p, PeerJoinedMsg(side)) ELSE out,
                   [cur EXCEPT ![ws] = code], TRUE)

\* The rest of the handler, once ws.currentRoom === code.
relayServer(rms, cur, ws, t, code, data, p) ==
    LET rms1 == getRoom(rms, code)
        from == sideFor(rms1[code], ws)
    IN IF t = T_MOVE /\ p # 0 /\ readyState[p] = 1
       THEN Effect(rms1, Send(NoSent, p, MoveMsg(from, data)), cur, TRUE)
       ELSE IF t = T_RESET /\ p # 0 /\ readyState[p] = 1
       THEN Effect(rms1, Send(NoSent, p, [t |-> "reset"]), cur, TRUE)
       ELSE Effect(rms1, NoSent, cur, TRUE)

\* ws.on('message') of server.js.  A frame that parses to null makes the
\* destructuring `const { t, room: code } = msg` throw inside the callback:
\* an uncaught exception, which ends the process.
messageServer(rms, cur, ws, f, p) ==
    IF f.k = "garbage"
    THEN Effect(rms, Send(NoSent, ws, ErrorMsg("invalid_json")), cur, TRUE)
    ELSE IF f.k = "null"
    THEN Effect(rms, NoSent, cur, FALSE)
    ELSE LET t    == IF f.k = "object" THEN f.t ELSE Undef
             code == IF f.k = "object" THEN f.room ELSE Undef
             data == IF f.k = "object" THEN f.data ELSE Undef
         IN IF t = T_JOIN
            THEN IF ~Truthy(code) \/ code.type # "string"
                 THEN Effect(rms, Send(NoSent, ws, ErrorMsg("missing_room")), cur, TRUE)
                 ELSE joinServer(rms, cur, ws, code.s, p)
            ELSE IF ~Truthy(code) \/ code.type # "string" \/ cur[ws] # code.s
                 THEN Effect(rms, Send(NoSent, ws, ErrorMsg("not_joined")), cur, TRUE)
                 ELSE relayServer(rms, cur, ws, t, code.s, data, p)

\* The room server.js's otherClient is called on while handling frame f
\* (after getRoom), NoRoom when the handler does not get that far.
PeerRoom(cur, ws, f) ==
    IF f.k # "object" \/ ~Truthy(f.room) \/ f.room.type # "string" THEN NoRoom
    ELSE IF f.t = T_JOIN \/ cur[ws] = f.room.s THEN f.room.s
    ELSE NoRoom

\* The values otherClient can return in that call.  A join calls it after
\* room.clients.add(ws).
PeerChoices(rms, cur, ws, f) ==
    IF PeerRoom(cur, ws, f) = NoRoom THEN {0}
    ELSE otherClient(getRoom(rms, PeerRoom(cur, ws, f))[PeerRoom(cur, ws, f)], ws)

\* ws.on('close') of server.js; p is otherClient(room, ws).
closeServer(rms, cur, ws, p) ==
    IF cur[ws] = NoRoom THEN Effect(rms, NoSent, cur, TRUE)
    ELSE LET code == cur[ws]
             rms1 == getRoom(rms, code)
             room == DropMember(rms1[code], ws)
         IN Effect(IF room.clients = {} THEN DeleteRoom(rms1, code)
                   ELSE [rms1 EXCEPT ![code] = room],
                   IF p # 0 /\ readyState[p] = 1
                   THEN Send(NoSent, p, [t |-> "peer_left"]) ELSE NoSent,
                   cur, TRUE)

ClosePeerChoices(rms, cur, ws) ==
    IF cur[ws] = NoRoom THEN {0}
    ELSE otherClient(getRoom(rms, cur[ws])[cur[ws]], ws)

(***************************************************************************)
(* What the clients see over time.  A socket delivers what ws.send was     *)
(* given in the order of the calls, so a connection's inbox is what the    *)
(* turns sent it, turn after turn.                                         *)
(***************************************************************************)

\* The room of the `joined` reply among the frames `out` a turn sent to a
\* connection; `old` when the turn sent it none.
JoinedRoom(out, old) ==
    IF \E i \in DOMAIN out : out[i].t = "joined"
    THEN out[CHOOSE i \in DOMAIN out : out[i].t = "joined"].room
    ELSE old

\* How many move and reset frames a recording run journals.
MaxLog == 2

\* A move or a reset frame.
IsRelay(f) == f.k = "object" /\ f.t \in {T_MOVE, T_RESET}

\* The journal of a run that records nothing, and of one that starts recording.
JournalOff == [on |-> FALSE]

JournalOn == [on |-> TRUE, proc |-> <<>>, inbox |-> [c \in Conns |-> <<>>]]

\* A recording run takes no more move and reset frames once MaxLog are journaled.
JournalHasRoom(f) == (journal.on /\ IsRelay(f)) => Len(journal.proc) < MaxLog

\* The open connections that sit with ws in the room frame f names, by the
\* registry, when the frame arrives.
PeersOf(ws, f) ==
    IF RoomCode(f.room) \in DOMAIN rooms /\ ws \in rooms[RoomCode(f.room)].clients
    THEN {c \in rooms[RoomCode(f.room)].clients \ {ws} : readyState[c] = 1}
    ELSE {}

\* The journal after the turn that handled frame f of ws and sent `out`: the
\* move and reset frames of members with an open peer, in the order the
\* handler took them, with the peers each was for, and every connection's
\* inbox of relayed frames.
Journal(j, ws, f, out) ==
    IF ~j.on THEN j
    ELSE [on |-> TRUE,
          proc |-> IF IsRelay(f) /\ PeersOf(ws, f) # {}
                   THEN Append(j.proc, [ws |-> ws, frame |-> f, peers |-> PeersOf(ws, f)])
                   ELSE j.proc,
          inbox |-> [c \in Conns |->
                       j.inbox[c] \o SelectSeq(out[c], LAMBDA m : m.t \in {"move", "reset"})]]

Init ==
    /\ variant \in Variants
    /\ up = TRUE
    /\ rooms = <<>>
    /\ readyState = [c \in Conns |-> 0]
    /\ tracked = {}
    /\ isAlive = <<>>
    /\ currentRoom = <<>>
    /\ cleaned = {}
    /\ last = [ev |-> "start"]
    /\ prev = <<>>
    /\ sent = NoSent
    /\ joinedIn = <<>>
    /\ pending = {}
    /\ journal = JournalOff

\* wss.on('connection'): connections are numbered in the order of accept.
Connect(ws) ==
    /\ up
    /\ readyState[ws] = 0
    /\ \A c \in Conns : c < ws => readyState[c] # 0
    /\ readyState' = [readyState EXCEPT ![ws] = 1]
    /\ tracked' = tracked \cup {ws}
    /\ isAlive' = Extend(isAlive, ws, TRUE)
    /\ currentRoom' = Extend(currentRoom, ws, NoRoom)
    /\ joinedIn' = Extend(joinedIn, ws, NoRoom)
    /\ last' = [ev |-> "connection", ws |-> ws]
    /\ prev' = rooms
    /\ sent' = NoSent
    /\ UNCHANGED <<variant, up, rooms, cleaned, pending, journal>>

\* A handler's effect becomes the next state; `gone` are the sockets whose
\* 'close' event this turn handled.
Apply(e, gone) ==
    /\ rooms' = e.rooms
    /\ sent' = e.sent
    /\ currentRoom' = [c \in DOMAIN e.currentRoom \ gone |-> e.currentRoom[c]]
    /\ up' = e.up
    /\ prev' = rooms
    /\ joinedIn' = [c \in DOMAIN joinedIn \ gone |-> JoinedRoom(e.sent[c], joinedIn[c])]

\* ws.on('message') of part_000, for one frame of an open connection.
Message000(ws, f) ==
    /\ up /\ variant = "part_000"
    /\ readyState[ws] = 1
    /\ JournalHasRoom(f)
    /\ \E lc \in LeaveTargets(getRoom(rooms, RoomCode(IF f.k = "object" THEN f.room ELSE Undef)), ws) :
         Apply(message000(rooms, currentRoom, ws, f, lc), {})
    /\ last' = [ev |-> "message", ws |-> ws, frame |-> f]
    /\ journal' = Journal(journal, ws, f, sent')
    /\ UNCHANGED <<variant, readyState, tracked, isAlive, cleaned, pending>>

\* ws.on('message') of server.js.
MessageServer(ws, f) ==
    /\ up /\ variant = "server.js"
    /\ readyState[ws] = 1
    /\ JournalHasRoom(f)
    /\ \E p \in PeerChoices(rooms, currentRoom, ws, f) :
         Apply(messageServer(rooms, currentRoom, ws, f, p), {})
    /\ last' = [ev |-> "message", ws |-> ws, frame |-> f]
    /\ journal' = Journal(journal, ws, f, sent')
    /\ UNCHANGED <<variant, readyState, tracked, isAlive, cleaned, pending>>

\* A 'pong' listener that does not set ws.isAlive: the pong arrives and the
\* flag stays as the last tick left it.
PongLost(ws) ==
    /\ up
    /\ readyState[ws] = 1
    /\ pending' = pending \ {ws}
    /\ last' = [ev |-> "pong", ws |-> ws]
    /\ prev' = rooms
    /\ sent' = NoSent
    /\ UNCHANGED <<variant, up, rooms, readyState, tracked, isAlive, currentRoom, cleaned,
                   joinedIn, journal>>

\* ws.on('pong')
Pong(ws) ==
    /\ up
    /\ readyState[ws] = 1
    /\ isAlive' = [isAlive EXCEPT ![ws] = TRUE]
    /\ pending' = pending \ {ws}
    /\ last' = [ev |-> "pong", ws |-> ws]
    /\ prev' = rooms
    /\ sent' = NoSent
    /\ UNCHANGED <<variant, up, rooms, readyState, tracked, currentRoom, cleaned,
                   joinedIn, journal>>

\* The client closes, or its link drops: the socket leaves OPEN and its
\* 'close' event is queued.  No handler of the relay runs yet.
Disconnect(ws) ==
    /\ up
    /\ readyState[ws] = 1
    /\ readyState' = [readyState EXCEPT ![ws] = 2]
    /\ last' = [ev |-> "disconnect", ws |-> ws]
    /\ prev' = rooms
    /\ sent' = NoSent
    /\ UNCHANGED <<variant, up, rooms, tracked, isAlive, currentRoom, cleaned,
                   joinedIn, pending, journal>>

\* ws.on('error') of part_000: the socket is already CLOSING when the event is
\* emitted, and its 'close' event follows.
Error000(ws) ==
    /\ up /\ variant = "part_000"
    /\ readyState[ws] = 1
    /\ readyState' = [readyState EXCEPT ![ws] = 2]
    /\ \E lc \in LeaveTargets(rooms, ws) :
         Apply(close000(rooms, currentRoom, ws, lc), {})
    /\ cleaned' = cleaned \cup {ws}
    /\ last' = [ev |-> "error", ws |-> ws, again |-> ws \in cleaned]
    /\ UNCHANGED <<variant, tracked, isAlive, pending, journal>>

\* An 'error' event in server.js, which registers no 'error' listener: the
\* emitter throws and the process ends.
ErrorServer(ws) ==
    /\ up /\ variant = "server.js"
    /\ readyState[ws] = 1
    /\ readyState' = [readyState EXCEPT ![ws] = 2]
    /\ Apply(Effect(rooms, NoSent, currentRoom, FALSE), {})
    /\ last' = [ev |-> "error", ws |-> ws, again |-> ws \in cleaned]
    /\ UNCHANGED <<variant, tracked, isAlive, cleaned, pending, journal>>

\* ws.on('close') of part_000.  The server drops the socket from wss.clients.
Close000(ws) ==
    /\ up /\ variant = "part_000"
    /\ readyState[ws] = 2
    /\ readyState' = [readyState EXCEPT ![ws] = 3]
    /\ tracked' = tracked \ {ws}
    /\ isAlive' = Without(isAlive, ws)
    /\ \E lc \in LeaveTargets(rooms, ws) :
         Apply(close000(rooms, currentRoom, ws, lc), {ws})
    /\ cleaned' = cleaned \cup {ws}
    /\ pending' = pending \ {ws}
    /\ last' = [ev |-> "close", ws |-> ws, again |-> ws \in cleaned]
    /\ UNCHANGED <<variant, journal>>

\* ws.on('close') of server.js.
CloseServer(ws) ==
    /\ up /\ variant = "server.js"
    /\ readyState[ws] = 2
    /\ readyState' = [readyState EXCEPT ![ws] = 3]
    /\ tracked' = tracked \ {ws}
    /\ isAlive' = Without(isAlive, ws)
    /\ \E p \in ClosePeerChoices(rooms, currentRoom, ws) :
         Apply(closeServer(rooms, currentRoom, ws, p), {ws})
    /\ cleaned' = cleaned \cup {ws}
    /\ pending' = pending \ {ws}
    /\ last' = [ev |-> "close", ws |-> ws, again |-> ws \in cleaned]
    /\ UNCHANGED <<variant, journal>>

(***************************************************************************)
(* The heartbeat.  wss.clients is walked in insertion order, which is the  *)
(* order of accept.  A walk state is [isAlive, readyState, terminated,     *)
(* pinged].                                                                *)
(***************************************************************************)

\* ws.terminate(): the socket leaves OPEN; its 'close' event is queued.
Terminate(st, ws) ==
    [st EXCEPT !.readyState[ws] = 2, !.terminated = @ \cup {ws}]

\* ws.isAlive = false; ws.ping()
Probe(st, ws) ==
    [st EXCEPT !.isAlive[ws] = FALSE, !.pinged = @ \cup {ws}]

\* part_000: `for (const ws of wss.clients)`, whose `return ws.terminate()`
\* leaves the interval callback.
RECURSIVE sweep000(_, _)
sweep000(i, st) ==
    IF i > NumConns THEN st
    ELSE IF i \notin tracked THEN sweep000(i + 1, st)
    ELSE IF st.isAlive[i] = FALSE THEN Terminate(st, i)
    ELSE sweep000(i + 1, Probe(st, i))

\* server.js: `wss.clients.forEach(ws => ...)`, whose `return ws.terminate()`
\* leaves the callback of one client only.
RECURSIVE sweepServer(_, _)
sweepServer(i, st) ==
    IF i > NumConns THEN st
    ELSE IF i \notin tracked THEN sweepServer(i + 1, st)
    ELSE IF ~st.isAlive[i] THEN sweepServer(i + 1, Terminate(st, i))
    ELSE sweepServer(i + 1, Probe(st, i))

SweepStart ==
    [isAlive |-> isAlive, readyState |-> readyState, terminated |-> {}, pinged |-> {}]

\* One tick of the interval.
Sweep ==
    /\ up
    /\ tracked # {}
    /\ LET st == IF variant = "part_000" THEN sweep000(1, SweepStart)
                 ELSE sweepServer(1, SweepStart)
       IN /\ isAlive' = st.isAlive
          /\ readyState' = st.readyState
          /\ pending' = pending \cup st.pinged
          /\ last' = [ev |-> "sweep", terminated |-> st.terminated, pinged |-> st.pinged,
                       dead |-> {ws \in tracked : ~isAlive[ws]}]
    /\ prev' = rooms
    /\ sent' = NoSent
    /\ UNCHANGED <<variant, up, rooms, tracked, currentRoom, cleaned, joinedIn, journal>>

(***************************************************************************)
(* Spec: rooms and relay.  Clients join, move and reset; sockets leave     *)
(* OPEN by Disconnect, which is also all that a heartbeat termination does *)
(* to a socket (ws.terminate()), so the heartbeat's own state is left out. *)
(***************************************************************************)
Next ==
    \/ \E ws \in Conns : Connect(ws)
    \/ \E ws \in Conns, f \in Frames : Message000(ws, f)
    \/ \E ws \in Conns, f \in Frames : MessageServer(ws, f)
    \/ \E ws \in Conns : Disconnect(ws)
    \/ \E ws \in Conns : Error000(ws)
    \/ \E ws \in Conns : ErrorServer(ws)
    \/ \E ws \in Conns : Close000(ws)
    \/ \E ws \in Conns : CloseServer(ws)

Spec == Init /\ [][Next]_vars

(***************************************************************************)
(* SpecHeartbeat: rooms and heartbeat.  Clients join, answer pings or do   *)
(* not, and the interval terminates the sockets it finds dead.             *)
(***************************************************************************)
NextHeartbeat ==
    \/ \E ws \in Conns : Connect(ws)
    \/ \E ws \in Conns, f \in JoinFrames : Message000(ws, f)
    \/ \E ws \in Conns, f \in JoinFrames : MessageServer(ws, f)
    \/ \E ws \in Conns : Pong(ws)
    \/ \E ws \in Conns : Disconnect(ws)
    \/ \E ws \in Conns : Error000(ws)
    \/ \E ws \in Conns : ErrorServer(ws)
    \/ \E ws \in Conns : Close000(ws)
    \/ \E ws \in Conns : CloseServer(ws)
    \/ Sweep

SpecHeartbeat == Init /\ [][NextHeartbeat]_vars

(***************************************************************************)
(* SpecFrames: what a client may put on the wire.  Besides a join and a    *)
(* move of room "a": text that is no JSON, JSON that is no object, objects *)
(* with an unknown type or none, and joins whose room is absent, empty or  *)
(* blank.                                                                  *)
(***************************************************************************)
T_CHAT == Str(<<"chat">>)

NoiseFrames ==
    {Garbage, JsonNull, Scalar,
     Object(T_CHAT, Str(<<"a">>), Undef),
     Object(Undef, Str(<<"a">>), Undef)}

BlankJoinFrames == {Object(T_JOIN, r, Undef) : r \in {Undef, Str(<<>>), Str(<<SP>>)}}

WireFrames ==
    NoiseFrames \cup BlankJoinFrames
        \cup {Object(T_JOIN, Str(<<"a">>), Undef), Object(T_MOVE, Str(<<"a">>), Undef)}

NextFrames ==
    \/ \E ws \in Conns : Connect(ws)
    \/ \E ws \in Conns, f \in WireFrames : Message000(ws, f)
    \/ \E ws \in Conns, f \in WireFrames : MessageServer(ws, f)
    \/ \E ws \in Conns : Disconnect(ws)
    \/ \E ws \in Conns : Close000(ws)
    \/ \E ws \in Conns : CloseServer(ws)

SpecFrames == Init /\ [][NextFrames]_vars

(***************************************************************************)
(* SpecLive: the heartbeat left to itself.  No client closes and no socket *)
(* fails: a socket leaves OPEN only when the interval terminates it.  The  *)
(* timer of setInterval keeps firing, and a 'close' event that ws has      *)
(* queued is run by the event loop: both are weakly fair.  Whether a       *)
(* client answers a ping is up to the client: Pong is not fair.            *)
(***************************************************************************)
NextLive ==
    \/ \E ws \in Conns : Connect(ws)
    \/ \E ws \in Conns, f \in JoinFrames : Message000(ws, f)
    \/ \E ws \in Conns, f \in JoinFrames : MessageServer(ws, f)
    \/ \E ws \in Conns : Pong(ws)
    \/ \E ws \in Conns : Close000(ws)
    \/ \E ws \in Conns : CloseServer(ws)
    \/ Sweep

Fairness ==
    /\ WF_vars(Sweep)
    /\ \A ws \in Conns : WF_vars(Close000(ws)) /\ WF_vars(CloseServer(ws))

SpecLive == Init /\ [][NextLive]_vars /\ Fairness

(***************************************************************************)
(* SpecOrder: a recording run.  Clients join rooms and send moves and      *)
(* resets of room "a", up to MaxLog of them to an open peer; the journal   *)
(* keeps the order in which the handler took them and what each            *)
(* connection received.                                                    *)
(***************************************************************************)
OrderFrames ==
    {Object(T_JOIN, Str(<<"a">>), Undef),
     Object(T_MOVE, Str(<<"a">>), Num(1)),
     Object(T_RESET, Str(<<"a">>), Undef)}

InitOrder ==
    /\ variant \in Variants
    /\ up = TRUE
    /\ rooms = <<>>
    /\ readyState = [c \in Conns |-> 0]
    /\ tracked = {}
    /\ isAlive = <<>>
    /\ currentRoom = <<>>
    /\ cleaned = {}
    /\ last = [ev |-> "start"]
    /\ prev = <<>>
    /\ sent = NoSent
    /\ joinedIn = <<>>
    /\ pending = {}
    /\ journal = JournalOn

NextOrder ==
    \/ \E ws \in Conns : Connect(ws)
    \/ \E ws \in Conns, f \in OrderFrames : Message000(ws, f)
    \/ \E ws \in Conns, f \in OrderFrames : MessageServer(ws, f)
    \/ \E ws \in Conns : Disconnect(ws)
    \/ \E ws \in Conns : Close000(ws)
    \/ \E ws \in Conns : CloseServer(ws)

SpecOrder == InitOrder /\ [][NextOrder]_vars

(***************************************************************************)
(* Reading the last turn.                                                  *)
(***************************************************************************)

\* The frames the last turn sent to ws that carry type t.
Got(ws, t) == {i \in DOMAIN sent[ws] : sent[ws][i].t = t}

\* The last turn handled a frame of type t.
Handled(t) ==
    last.ev = "message" /\ last.frame.k = "object" /\ last.frame.t = t

\* The last turn ran the cleanup of a socket and the process survived it.
CleanedUp == up /\ last.ev \in {"close", "error"}

\* The members of room c of registry rms (none when rms has no room c).
Members(rms, c) == IF c \in DOMAIN rms THEN rms[c].clients ELSE {}

\* The room a frame names, NoRoom when its room field is no string.
Named(f) == IF f.room.type = "string" THEN f.room.s ELSE NoRoom

\* The data a receiver reads in a relayed frame.
DataOf(m) == IF "data" \in DOMAIN m THEN m.data ELSE Undef

\* The roles that connections other than ws hold in a room.
HeldByOthers(room, ws) == {room.sides[c] : c \in DOMAIN room.sides \ {ws}}

(***************************************************************************)
(* C1.  Whenever a join(c) of connection A is answered joined(c, s), the   *)
(* registry maps c, right after that handler, to a room that holds A with  *)
(* role s -- whatever A was a member of before.                            *)
(***************************************************************************)
C1_JoinedIsRegistered ==
    Handled(T_JOIN) =>
        \A i \in Got(last.ws, "joined") :
            LET m == sent[last.ws][i]
            IN /\ m.room \in DOMAIN rooms
               /\ last.ws \in rooms[m.room].clients
               /\ sideFor(rooms[m.room], last.ws) = m.side

(***************************************************************************)
(* C2.  Every room of the registry has at most two members, in every       *)
(* reachable state.                                                        *)
(***************************************************************************)
C2_AtMostTwo ==
    \A c \in DOMAIN rooms : Cardinality(rooms[c].clients) <= 2

\* A third connection has asked to join a room that two others hold.
C2_Witness ==
    /\ Handled(T_JOIN)
    /\ Cardinality(Members(prev, last.frame.room.s) \ {last.ws}) = 2
    /\ Cardinality(Members(rooms, last.frame.room.s)) = 2

(***************************************************************************)
(* C3.  In every room of the registry the connections that have a role    *)
(* are exactly the members, no two members share a role, every role is X   *)
(* or O, and a room of two members holds exactly the roles X and O.        *)
(***************************************************************************)
C3_RolesMatchMembers ==
    \A c \in DOMAIN rooms :
        LET r == rooms[c]
        IN /\ DOMAIN r.sides = r.clients
           /\ \A a, b \in r.clients : a # b => r.sides[a] # r.sides[b]
           /\ Used(r) \subseteq {"X", "O"}
           /\ Cardinality(r.clients) = 2 => Used(r) = {"X", "O"}

\* A connection has joined the member that holds O and was given X: the room
\* has lost its first member before.
C3_Witness ==
    /\ Handled(T_JOIN)
    /\ \E i \in Got(last.ws, "joined") : sent[last.ws][i].side = "X"
    /\ Cardinality(Members(rooms, last.frame.room.s)) = 2

(***************************************************************************)
(* C4.  Each connection is a member of at most one room of the registry:   *)
(* a join(d) of a member of room c leaves it a member of d only.           *)
(***************************************************************************)
C4_OneRoomPerConnection ==
    \A ws \in Conns : Cardinality(Membership(rooms, ws)) <= 1

(***************************************************************************)
(* C5.  Once the close (or error) event of a connection has been handled,  *)
(* the connection is a member of no room and has a role in no room.        *)
(***************************************************************************)
C5_ClosedIsGone ==
    CleanedUp =>
        \A c \in DOMAIN rooms :
            last.ws \notin rooms[c].clients /\ last.ws \notin DOMAIN rooms[c].sides

(***************************************************************************)
(* C6.  When member A of room c, holding role r, sends move(c, data)       *)
(* (resp. reset(c)) and the other member B of c is open, B receives        *)
(* exactly one frame, move with from = r and the same data (resp. a bare   *)
(* reset), A receives nothing, and no connection outside c receives        *)
(* anything.                                                               *)
(***************************************************************************)
C6_RelayedToPeerOnly ==
    (Handled(T_MOVE) \/ Handled(T_RESET)) =>
        LET A == last.ws
            c == Named(last.frame)
        IN A \in Members(prev, c) =>
             \A B \in Members(prev, c) \ {A} :
                readyState[B] = 1 =>
                  /\ Len(sent[B]) = 1
                  /\ IF Handled(T_MOVE)
                     THEN /\ DOMAIN sent[B][1] \subseteq {"t", "from", "data"}
                          /\ sent[B][1].t = "move"
                          /\ "from" \in DOMAIN sent[B][1]
                          /\ sent[B][1].from = sideFor(prev[c], A)
                          /\ DataOf(sent[B][1]) = last.frame.data
                     ELSE sent[B][1] = [t |-> "reset"]
                  /\ sent[A] = <<>>
                  /\ \A o \in Conns \ Members(prev, c) : sent[o] = <<>>

(***************************************************************************)
(* C7.  For a connection that is a member of no room: join(c) on an        *)
(* unknown or empty room is answered joined(c, X); on a room whose single  *)
(* member holds X, joined(c, O); on a room whose single member holds O,    *)
(* joined(c, X).  Every other open member of c receives exactly one        *)
(* peer_joined with the joiner's role, and nobody else receives anything.  *)
(***************************************************************************)
C7_FreshJoin ==
    (Handled(T_JOIN) /\ Membership(prev, last.ws) = {} /\ Named(last.frame) # NoRoom) =>
        LET A == last.ws
            c == Named(last.frame)
            M == Members(prev, c)
            held == IF c \in DOMAIN prev THEN Used(prev[c]) ELSE {}
        IN (Cardinality(M) <= 1 /\ held \in {{}, {"X"}, {"O"}}) =>
             LET s == IF held = {"X"} THEN "O" ELSE "X"
             IN /\ sent[A] = <<[t |-> "joined", room |-> c, side |-> s]>>
                /\ \A B \in Conns \ {A} :
                      sent[B] = IF B \in M /\ readyState[B] = 1
                                THEN <<[t |-> "peer_joined", side |-> s]>>
                                ELSE <<>>

\* A connection that is in no room has joined the open holder of O.
C7_Witness ==
    /\ Handled(T_JOIN)
    /\ Membership(prev, last.ws) = {}
    /\ \E B \in Members(prev, Named(last.frame)) :
          /\ Members(prev, Named(last.frame)) = {B}
          /\ prev[Named(last.frame)].sides[B] = "O"
          /\ readyState[B] = 1
          /\ Got(B, "peer_joined") # {}
    /\ Got(last.ws, "joined") # {}

(***************************************************************************)
(* C8.  A join(c) when both roles of room c are taken (here: by            *)
(* connections other than the sender) is answered error(room_full) to the  *)
(* sender only and mutates nothing: every room of the registry, the        *)
(* sender's own included, is as before, and nobody else receives a frame.  *)
(***************************************************************************)
C8_FullRoomRejected ==
    Handled(T_JOIN) =>
        LET A == last.ws
            c == Named(last.frame)
        IN (c \in DOMAIN prev /\ {"X", "O"} \subseteq HeldByOthers(prev[c], A)) =>
             /\ sent[A] = <<[t |-> "error", error |-> "room_full"]>>
             /\ rooms = prev
             /\ \A o \in Conns \ {A} : sent[o] = <<>>

(***************************************************************************)
(* C9.  When A is a member of room c together with an open member B and A  *)
(* departs from c -- its close or error event is handled (a heartbeat      *)
(* termination ends in the close event too), or it sends a valid join for  *)
(* another room d -- B receives exactly one peer_left.                     *)
(***************************************************************************)
C9_PeerLeftOnce ==
    \A c \in DOMAIN prev :
        \A A \in prev[c].clients :
            (\/ CleanedUp /\ last.ws = A
             \/ Handled(T_JOIN) /\ last.ws = A /\ Named(last.frame) \notin {NoRoom, c}) =>
                \A B \in prev[c].clients \ {A} :
                    readyState[B] = 1 => Cardinality(Got(B, "peer_left")) = 1

(***************************************************************************)
(* C10.  Running the close/error cleanup a second time for a connection    *)
(* sends no frame to anyone, raises no error and leaves the registry as    *)
(* it was.                                                                 *)
(***************************************************************************)
C10_SecondCleanupIsSilent ==
    (last.ev \in {"close", "error"} /\ last.again) =>
        up /\ sent = NoSent /\ rooms = prev

\* The cleanup has run a second time for a socket while an open connection
\* sits in a room.
C10_Witness ==
    /\ last.ev \in {"close", "error"}
    /\ last.again
    /\ \E c \in DOMAIN rooms : \E B \in rooms[c].clients : readyState[B] = 1

\* Connection ws no longer counts for room c: its close event was handled, or
\* its last `joined` reply names another room.
Gone(ws, c) == ws \notin DOMAIN joinedIn \/ joinedIn[ws] # c

(***************************************************************************)
(* C11.  After every turn, the registry holds no room whose members have   *)
(* all closed or joined another room (in particular no empty room); and a  *)
(* join(c) that arrives when every connection that was in c has closed or  *)
(* joined another room is answered joined(c, X).                           *)
(***************************************************************************)
C11_EmptiedRoomIsGone ==
    /\ \A c \in DOMAIN rooms : \E ws \in rooms[c].clients : ~Gone(ws, c)
    /\ (Handled(T_JOIN) /\ Named(last.frame) # NoRoom) =>
          LET c == Named(last.frame)
          IN (\A ws \in Members(prev, c) : ws # last.ws /\ Gone(ws, c)) =>
                sent[last.ws] = <<[t |-> "joined", room |-> c, side |-> "X"]>>

\* The last turn handled a frame that decoded to an object.
HandledObject == last.ev = "message" /\ last.frame.k = "object"

(***************************************************************************)
(* C12.  A move or reset that names a room the sender is not a member of   *)
(* (by the registry), and any message whose type is unknown or missing,    *)
(* is ignored in silence: nobody is sent anything and the registry is      *)
(* unchanged.                                                              *)
(***************************************************************************)
C12_StaleAndUnknownIgnored ==
    (/\ HandledObject
     /\ \/ last.frame.t \in {T_MOVE, T_RESET} /\ last.ws \notin Members(prev, Named(last.frame))
        \/ last.frame.t \notin {T_JOIN, T_MOVE, T_RESET}) =>
        sent = NoSent /\ rooms = prev

\* The last turn was a pong of ws.
Answered(ws) == last.ev = "pong" /\ last.ws = ws

\* The last turn was the close event of ws and cleaned up after it as the
\* close of a member should: ws is in no room, the open members of the rooms
\* it was in have each received a peer_left, and a room it was alone in is
\* gone from the registry.
ClosedAndCleaned(ws) ==
    /\ last.ev = "close" /\ last.ws = ws
    /\ Membership(rooms, ws) = {}
    /\ \A c \in Membership(prev, ws) :
          /\ \A B \in prev[c].clients \ {ws} : readyState[B] = 1 => Got(B, "peer_left") # {}
          /\ prev[c].clients = {ws} => c \notin DOMAIN rooms

(***************************************************************************)
(* C13.  Liveness, with the interval firing again and again: a tracked     *)
(* connection that answers no ping any more is terminated, and its close   *)
(* event leaves it cleaned up as an explicit close does -- a member of no  *)
(* room, the remaining open member told peer_left, a room left empty       *)
(* removed.  Stated per connection: from any moment it is tracked, it      *)
(* either answers a ping later or is closed and cleaned up.                *)
(***************************************************************************)
C13_SilentIsSweptAndCleaned ==
    \A ws \in Conns : (ws \in tracked) ~> (Answered(ws) \/ ClosedAndCleaned(ws))

\* What a receiver can tell of a relayed frame: its type and its payload.
Key(m) == <<m.t, DataOf(m)>>

\* The same of a move or reset frame as the client sent it.
KeyOfFrame(f) == <<f.t.s[1], f.data>>

\* The journal's frames that were for B, in the order the handler took them.
ForPeer(B) ==
    LET mine == SelectSeq(journal.proc, LAMBDA e : B \in e.peers)
    IN [i \in DOMAIN mine |-> KeyOfFrame(mine[i].frame)]

RECURSIVE IsSubSeq(_, _)
\* Sequence a is b with some of its elements left out.
IsSubSeq(a, b) ==
    IF a = <<>> THEN TRUE
    ELSE IF b = <<>> THEN FALSE
    ELSE IF Head(a) = Head(b) THEN IsSubSeq(Tail(a), Tail(b))
    ELSE IsSubSeq(a, Tail(b))

(***************************************************************************)
(* C14.  Ordering: the moves and resets a connection B has received are,   *)
(* in the order of receipt, moves and resets that the coordinator handled  *)
(* while B was the other open member of the sender's room, in the order    *)
(* it handled them, each at most once: if m1 was handled before m2 and B   *)
(* received both, it received m1 first.                                    *)
(***************************************************************************)
C14_RelayKeepsOrder ==
    journal.on =>
        \A B \in Conns :
            IsSubSeq([i \in DOMAIN journal.inbox[B] |-> Key(journal.inbox[B][i])], ForPeer(B))

\* A member has sent two different frames, one after the other, while the same
\* connection was its open peer, and the peer has received both.
C14_Witness ==
    /\ journal.on
    /\ Len(journal.proc) = 2
    /\ journal.proc[1].ws = journal.proc[2].ws
    /\ journal.proc[1].frame # journal.proc[2].frame
    /\ \E B \in Conns :
          /\ journal.proc[1].peers = {B} /\ journal.proc[2].peers = {B}
          /\ Len(journal.inbox[B]) = 2

\* A room field that is absent, empty, or made of spaces only.
Blank(v) == v = Undef \/ (v.type = "string" /\ \A i \in DOMAIN v.s : v.s[i] = SP)

(***************************************************************************)
(* C15.  A join whose room field is absent, empty or whitespace only is    *)
(* answered error(missing_room) to the sender, sends nothing to anyone     *)
(* else, creates no room and changes no membership or role.                *)
(***************************************************************************)
C15_BlankRoomRejected ==
    (Handled(T_JOIN) /\ Blank(last.frame.room)) =>
        /\ sent[last.ws] = <<[t |-> "error", error |-> "missing_room"]>>
        /\ \A o \in Conns \ {last.ws} : sent[o] = <<>>
        /\ rooms = prev

\* The last turn handled a frame that is no well-formed message: text that
\* does not decode, a decoded value that is no object, an object with an
\* unknown type or none.
HandledNoise ==
    /\ last.ev = "message"
    /\ \/ last.frame.k # "object"
       \/ last.frame.t \notin {T_JOIN, T_MOVE, T_RESET}

(***************************************************************************)
(* C16.  No inbound frame is fatal: after a frame that does not decode,    *)
(* that decodes to no object, or whose type is unknown, the process is     *)
(* still running (it goes on handling every connection's frames), the      *)
(* only reply, if any, is error(invalid_json) to the sender, and the       *)
(* registry is unchanged.                                                  *)
(***************************************************************************)
C16_NoFrameIsFatal ==
    HandledNoise =>
        /\ up
        /\ sent[last.ws] \in {<<>>, <<[t |-> "error", error |-> "invalid_json"]>>}
        /\ \A o \in Conns \ {last.ws} : sent[o] = <<>>
        /\ rooms = prev

(***************************************************************************)
(* C17.  One tick of the sweeper serves every tracked connection: each     *)
(* one whose liveness flag is false at the tick is terminated in that      *)
(* tick, and each other one has its flag set to false and is sent a ping   *)
(* in that tick, however many are dead and wherever they stand in the      *)
(* iteration order.                                                        *)
(***************************************************************************)
C17_TickServesAll ==
    last.ev = "sweep" =>
        /\ last.terminated = last.dead
        /\ last.pinged = tracked \ last.dead
        /\ \A ws \in last.pinged : ~isAlive[ws]

\* The connection whose event the last turn handled (0 for a tick of the
\* interval, which is no connection's event).
Actor == IF "ws" \in DOMAIN last THEN last.ws ELSE 0

\* The rooms the last turn may touch: those its connection was a member of,
\* and the one its join names.
MayTouch ==
    Membership(prev, Actor)
        \cup (IF Handled(T_JOIN) /\ Named(last.frame) # NoRoom THEN {Named(last.frame)} ELSE {})

\* Room x is in the registry as it was before the last turn.
Untouched(x) == x \in DOMAIN prev /\ x \in DOMAIN rooms /\ rooms[x] = prev[x]

(***************************************************************************)
(* C18.  Frame: one event of connection A (a join, move or reset frame,    *)
(* its close or error; a sweeper termination reaches the rooms as the      *)
(* close event it queues) leaves the process running with its registry,    *)
(* and changes at most two rooms, the room A leaves and the room A joins.  *)
(* Every other room keeps its members and roles, and a connection that     *)
(* sits only in other rooms receives nothing.                              *)
(***************************************************************************)
C18_OtherRoomsUntouched ==
    LET all == DOMAIN prev \cup DOMAIN rooms
    IN /\ up
       /\ \A x \in all \ MayTouch : Untouched(x)
       /\ Cardinality({x \in all : ~Untouched(x)}) <= 2
       /\ \A B \in Conns \ {Actor} :
             (\A x \in MayTouch : B \notin Members(prev, x) /\ B \notin Members(rooms, x)) =>
                sent[B] = <<>>

\* The frames that carry a room's traffic to its members.
Traffic == {"move", "reset", "peer_joined", "peer_left"}

\* The rooms a frame of the last turn can come from: a peer_left, from a room
\* the turn's connection was in; a move, reset or peer_joined, from the room
\* the handled frame names.
Origin(m) ==
    IF m.t = "peer_left" THEN Membership(prev, Actor)
    ELSE IF last.ev = "message" /\ last.frame.k = "object" THEN {Named(last.frame)}
    ELSE {}

(***************************************************************************)
(* C19.  Room isolation: every move, reset, peer_joined or peer_left that  *)
(* a connection B receives comes from the room named in B's most recent    *)
(* `joined` reply; once B has been answered joined(d, _), no traffic of a  *)
(* room c # d that it joined earlier reaches it.                           *)
(***************************************************************************)
C19_TrafficFromJoinedRoom ==
    \A B \in Conns :
        \A i \in DOMAIN sent[B] :
            sent[B][i].t \in Traffic =>
                B \in DOMAIN joinedIn /\ joinedIn[B] \in Origin(sent[B][i])

(***************************************************************************)
(* C20.  Sweeper safety: a tick terminates a connection only if its        *)
(* liveness flag is false at the tick, and then the connection was pinged  *)
(* by an earlier tick and no pong of it has arrived since.  So one that    *)
(* answers every ping before the next tick is never terminated, nor is a   *)
(* newly accepted one at the first tick that sees it.                      *)
(***************************************************************************)
C20_OnlySilentTerminated ==
    last.ev = "sweep" =>
        \A ws \in last.terminated : ws \in last.dead /\ ws \in pending

\* A tick has terminated a connection that was silent since its ping, and has
\* spared and pinged another one, which is tracked too.
C20_Witness ==
    /\ last.ev = "sweep"
    /\ last.terminated # {}
    /\ last.terminated \subseteq pending
    /\ last.pinged # {}

====
